---------------------------- MODULE Spec2Model ----------------------------
(***************************************************************************)
(* Model of logfmter.formatter.Logfmter (src/logfmter/formatter.py).       *)
(*                                                                         *)
(* Text is a sequence of one-character strings, so that str.replace,       *)
(* membership tests and str.format are computed character by character.    *)
(* A Python value is a record [t, n, s, d]: t is its type tag ("none",     *)
(* "bool", "num", "str", "obj", "dict", "exc"), n its number (0/1 for a    *)
(* bool), s its text (the string form of an "obj") and d its items.        *)
(***************************************************************************)
EXTENDS Integers, Sequences, FiniteSets, TLC

VARIABLES
    op,      \* name of the class method applied last ("none" before any call)
    arg,     \* its argument
    res,     \* its outcome: [ok |-> TRUE, v |-> result] or [ok |-> FALSE, ...]
    self,    \* the Logfmter instance: [keys, mapping, datefmt]
    record,  \* the LogRecord held by the caller: its __dict__, in order
    pre,     \* the LogRecord as it was when the last format call started
    out,     \* outcome of the last format call on record
    passed,  \* the params that call built
    emitted, \* the key=value tokens that call emitted, in order
    first,   \* the line the first format call on record returned
    calls,   \* number of format calls made on record so far (counted up to MaxCalls)
    between, \* how the last format call on another record ended ("none" before any)
    built    \* the Logfmter instance as __init__ left it

vars == <<op, arg, res, self, record, pre, out, passed, emitted, first, calls,
          between, built>>

----------------------------------------------------------------------------
(* Characters *)

SP == " "
EQ == "="
DQ == "\""
NL == "\n"
BS == "\\"
US == "_"

(* Bounds *)

MaxLen == 4       \* longest text handed to a class method
MaxNum == 11      \* largest magnitude of a number handed to format_value
MaxNewlines == 2  \* most trailing newlines of the message of an error
MaxFrames == 1    \* most frames of a traceback
MaxKeys == 2      \* most default keys and mapping items given to the constructor
MaxFields == 2    \* most items of a dict message, and most extra fields of a record
MaxCalls == 2     \* format calls counted on one record

Alphabet == {"a", SP, EQ, DQ, NL, BS}

RECURSIVE TextsOfLen(_)
TextsOfLen(n) ==
    IF n = 0 THEN {<<>>}
    ELSE {<<c>> \o t : c \in Alphabet, t \in TextsOfLen(n - 1)}

Texts == UNION {TextsOfLen(n) : n \in 0..MaxLen}

----------------------------------------------------------------------------
(* Python primitives used by the formatter *)

None == [t |-> "none", n |-> 0, s |-> <<>>, d |-> <<>>]
Bool(b) == [t |-> "bool", n |-> IF b THEN 1 ELSE 0, s |-> <<>>, d |-> <<>>]
Num(n) == [t |-> "num", n |-> n, s |-> <<>>, d |-> <<>>]
Str(s) == [t |-> "str", n |-> 0, s |-> s, d |-> <<>>]
Obj(s) == [t |-> "obj", n |-> 0, s |-> s, d |-> <<>>]
\* a dict: its items, <<key, value>> pairs in insertion order
Dict(d) == [t |-> "dict", n |-> 0, s |-> <<>>, d |-> d]
\* an exc_info tuple (Exception, Exception(s), tb) whose traceback has n frames
Exc(s, n) == [t |-> "exc", n |-> n, s |-> s, d |-> <<>>]

\* the outcome of a call: a returned value, or a raised exception
Ok(v) == [ok |-> TRUE, v |-> v, err |-> ""]
Raise(e) == [ok |-> FALSE, v |-> <<>>, err |-> e]

\* c in value
Contains(value, c) == \E i \in 1..Len(value) : value[i] = c

\* value.replace(c, new) for a one-character c
RECURSIVE Replace(_, _, _)
Replace(value, c, new) ==
    IF value = <<>> THEN <<>>
    ELSE (IF Head(value) = c THEN new ELSE <<Head(value)>>)
             \o Replace(Tail(value), c, new)

\* value.rstrip("\n")
RECURSIVE RStrip(_, _)
RStrip(value, c) ==
    IF value # <<>> /\ value[Len(value)] = c
    THEN RStrip(SubSeq(value, 1, Len(value) - 1), c)
    ELSE value

\* sep.join(parts)
RECURSIVE Join(_, _)
Join(sep, parts) ==
    IF parts = <<>> THEN <<>>
    ELSE IF Len(parts) = 1 THEN parts[1]
    ELSE parts[1] \o sep \o Join(sep, Tail(parts))

Digit(d) == <<"0", "1", "2", "3", "4", "5", "6", "7", "8", "9">>[d + 1]

RECURSIVE Digits(_)
Digits(n) == IF n < 10 THEN <<Digit(n)>> ELSE Digits(n \div 10) \o <<Digit(n % 10)>>

\* str(value)
StrOf(value) ==
    CASE value.t = "none" -> <<"N", "o", "n", "e">>
      [] value.t = "bool" -> IF value.n = 1 THEN <<"T", "r", "u", "e">>
                             ELSE <<"F", "a", "l", "s", "e">>
      [] value.t = "num" -> IF value.n < 0 THEN <<"-">> \o Digits(-value.n)
                            ELSE Digits(value.n)
      [] OTHER -> value.s

\* bool(value): the truth value `not key` tests
Truthy(value) ==
    CASE value.t = "none" -> FALSE
      [] value.t \in {"bool", "num"} -> value.n # 0
      [] value.t = "str" -> value.s # <<>>
      [] value.t = "dict" -> value.d # <<>>
      [] OTHER -> TRUE

IsBool(value) == value.t = "bool"

\* isinstance(value, numbers.Number): bool is a subclass of int
IsNumber(value) == value.t \in {"bool", "num"}

----------------------------------------------------------------------------
(* Logfmter class methods *)

format_string_wrap_first(value) ==
    LET quoted == IF Contains(value, SP) \/ Contains(value, EQ)
                  THEN <<DQ>> \o value \o <<DQ>> ELSE value
        escaped == Replace(Replace(quoted, DQ, <<BS, DQ>>), NL, <<BS, "n">>)
    IN  IF escaped # <<>> THEN escaped ELSE <<DQ, DQ>>

format_string(value) ==
    LET needs_dquote_escaping == Contains(value, DQ)
        needs_newline_escaping == Contains(value, NL)
        needs_quoting == Contains(value, SP) \/ Contains(value, EQ)
        v1 == IF needs_dquote_escaping THEN Replace(value, DQ, <<BS, DQ>>) ELSE value
        v2 == IF needs_newline_escaping THEN Replace(v1, NL, <<BS, "n">>) ELSE v1
        v3 == IF needs_quoting THEN <<DQ>> \o v2 \o <<DQ>> ELSE v2
    IN  IF v3 # <<>> THEN v3 ELSE <<DQ, DQ>>

format_value_number_first(value) ==
    IF value.t = "none" THEN <<>>
    ELSE IF IsNumber(value) THEN StrOf(value)
    ELSE IF IsBool(value) THEN (IF value.n = 1 THEN <<"t", "r", "u", "e">>
                                ELSE <<"f", "a", "l", "s", "e">>)
    ELSE format_string(StrOf(value))

format_value(value) ==
    IF value.t = "none" THEN <<>>
    ELSE IF IsBool(value) THEN (IF value.n = 1 THEN <<"t", "r", "u", "e">>
                                ELSE <<"f", "a", "l", "s", "e">>)
    ELSE IF IsNumber(value) THEN StrOf(value)
    ELSE format_string(StrOf(value))

normalize_key_keep_empty(key) ==
    IF key.t # "str" /\ Truthy(key) THEN Raise("AttributeError")
    ELSE Ok(Replace(Replace(key.s, SP, <<US>>), NL, <<BS, "n">>))

\* key.replace exists on text only: any other truthy key raises AttributeError
normalize_key(key) ==
    IF ~Truthy(key) THEN Ok(<<US>>)
    ELSE IF key.t # "str" THEN Raise("AttributeError")
    ELSE Ok(Replace(Replace(key.s, SP, <<US>>), NL, <<BS, "n">>))

\* traceback.print_exception(_type, exc, tb, None, sio): a header and two lines
\* per frame when there is a traceback, then "Type: message" (the type alone
\* when the message is empty), each line ended by a newline. The type is "E",
\* the header "T" and a frame line "f".
RECURSIVE Frames(_)
Frames(n) == IF n = 0 THEN <<>> ELSE <<SP, "f", NL, SP, "f", NL>> \o Frames(n - 1)

print_exception(exc_info) ==
    (IF exc_info.n > 0 THEN <<"T", NL>> \o Frames(exc_info.n) ELSE <<>>)
        \o <<"E">>
        \o (IF exc_info.s = <<>> THEN <<>> ELSE <<":", SP>> \o exc_info.s)
        \o <<NL>>

format_exc_info(exc_info) ==
    LET value == RStrip(print_exception(exc_info), NL)
    IN  format_string(value)

\* "{}={}".format(key, value)
Token(key, value) == key \o <<EQ>> \o value

\* the "key=value" tokens of params, one per item
RECURSIVE ParamTokens(_)
ParamTokens(params) ==
    IF params = <<>> THEN <<>>
    ELSE <<Token(params[1][1], format_value(params[1][2]))>> \o ParamTokens(Tail(params))

format_params(params) == Join(<<SP>>, ParamTokens(params))

----------------------------------------------------------------------------
(* dict and attribute access *)

HasKey(d, k) == \E i \in 1..Len(d) : d[i][1] = k

Lookup(d, k) == d[CHOOSE i \in 1..Len(d) : d[i][1] = k][2]

\* d[k] = v: a key already present keeps its place and takes the new value
Put(d, k, v) ==
    IF HasKey(d, k)
    THEN [i \in 1..Len(d) |-> IF d[i][1] = k THEN <<k, v>> ELSE d[i]]
    ELSE Append(d, <<k, v>>)

\* {normalize_key(key): value for key, value in items}, built onto acc
RECURSIVE NormalizeItems(_, _)
NormalizeItems(items, acc) ==
    IF items = <<>> THEN Ok(acc)
    ELSE LET key == normalize_key(items[1][1])
         IN  IF ~key.ok THEN key
             ELSE NormalizeItems(Tail(items), Put(acc, key.v, items[1][2]))

ASCTIME == <<"a", "s", "c", "t", "i", "m", "e">>
CREATED == <<"c", "r", "e", "a", "t", "e", "d">>
EXC_INFO == <<"e", "x", "c", "_", "i", "n", "f", "o">>
LEVELNAME == <<"l", "e", "v", "e", "l", "n", "a", "m", "e">>
LEVELNO == <<"l", "e", "v", "e", "l", "n", "o">>
MSG == <<"m", "s", "g">>
AT == <<"a", "t">>

RESERVED == {
    <<"a", "r", "g", "s">>,
    <<"a", "s", "c", "t", "i", "m", "e">>,
    <<"c", "r", "e", "a", "t", "e", "d">>,
    <<"e", "x", "c", "_", "i", "n", "f", "o">>,
    <<"e", "x", "c", "_", "t", "e", "x", "t">>,
    <<"f", "i", "l", "e", "n", "a", "m", "e">>,
    <<"f", "u", "n", "c", "N", "a", "m", "e">>,
    <<"l", "e", "v", "e", "l", "n", "a", "m", "e">>,
    <<"l", "e", "v", "e", "l", "n", "o">>,
    <<"l", "i", "n", "e", "n", "o">>,
    <<"m", "e", "s", "s", "a", "g", "e">>,
    <<"m", "o", "d", "u", "l", "e">>,
    <<"m", "s", "e", "c", "s">>,
    <<"m", "s", "g">>,
    <<"n", "a", "m", "e">>,
    <<"p", "a", "t", "h", "n", "a", "m", "e">>,
    <<"p", "r", "o", "c", "e", "s", "s">>,
    <<"p", "r", "o", "c", "e", "s", "s", "N", "a", "m", "e">>,
    <<"r", "e", "l", "a", "t", "i", "v", "e", "C", "r", "e", "a", "t", "e", "d">>,
    <<"s", "t", "a", "c", "k", "_", "i", "n", "f", "o">>,
    <<"t", "h", "r", "e", "a", "d">>,
    <<"t", "h", "r", "e", "a", "d", "N", "a", "m", "e">>
}

NotReserved(item) == item[1] \notin RESERVED

\* the items of record.__dict__ with each attribute name as a str key
AttrItems(record_) == [i \in 1..Len(record_) |-> <<Str(record_[i][1]), record_[i][2]>>]

get_extra(record_) == NormalizeItems(AttrItems(SelectSeq(record_, NotReserved)), <<>>)

\* record.getMessage() of a record without args: str(record.msg)
getMessage(record_) == StrOf(Lookup(record_, MSG))

\* logging.Formatter.formatTime(record, datefmt): time.strftime of the format
\* over record.created, "%" standing for a directive; without a datefmt the
\* default format (date, space, time) followed by ",msecs"
formatTime(record_, datefmt) ==
    LET created == Digits(Lookup(record_, CREATED).n)
    IN  IF Truthy(datefmt) THEN Replace(datefmt.s, "%", created)
        ELSE Replace(<<"%", SP, "%">>, "%", created) \o <<",", "0">>

----------------------------------------------------------------------------
(* Logfmter instance methods *)

\* [normalize_key(key) for key in keys]
RECURSIVE NormalizeKeys(_)
NormalizeKeys(keys) ==
    IF keys = <<>> THEN Ok(<<>>)
    ELSE LET key == normalize_key(keys[1])
             rest == NormalizeKeys(Tail(keys))
         IN  IF ~key.ok THEN key
             ELSE IF ~rest.ok THEN rest
             ELSE Ok(<<key.v>> \o rest.v)

\* Logfmter(keys, mapping, datefmt): the instance, or the exception raised
init(keys, mapping, datefmt) ==
    LET ks == NormalizeKeys(keys)
        mp == NormalizeItems(mapping, <<>>)
    IN  IF ~ks.ok THEN ks
        ELSE IF ~mp.ok THEN mp
        ELSE Ok([keys |-> ks.v, mapping |-> mp.v, datefmt |-> datefmt])

\* "asctime" in self.keys or "asctime" in self.mapping.values()
UsesAsctime(self_) ==
    \/ \E i \in 1..Len(self_.keys) : self_.keys[i] = ASCTIME
    \/ \E i \in 1..Len(self_.mapping) : self_.mapping[i][2] = ASCTIME

generate_asctime_and_message(self_, record_) ==
    LET stamped == IF UsesAsctime(self_)
                   THEN Put(record_, ASCTIME, Str(formatTime(record_, self_.datefmt)))
                   ELSE record_
    IN  Put(stamped, <<"m", "e", "s", "s", "a", "g", "e">>, Str(getMessage(record_)))

\* the record after the assignment to record.asctime, when it is made
generate_asctime(self_, record_) ==
    IF UsesAsctime(self_)
    THEN Put(record_, ASCTIME, Str(formatTime(record_, self_.datefmt)))
    ELSE record_

\* {"msg": ..., **extra}
RECURSIVE PutAll(_, _)
PutAll(d, items) ==
    IF items = <<>> THEN d
    ELSE PutAll(Put(d, items[1][1], items[1][2]), Tail(items))

get_params_ignore_dict(record_) ==
    LET extra == get_extra(record_)
    IN  IF ~extra.ok THEN extra
        ELSE Ok(PutAll(<<<<MSG, Str(getMessage(record_))>>>>, extra.v))

\* params: the items of the dict it is bound to, or the exception raised
get_params(record_) ==
    LET msg == Lookup(record_, MSG)
    IN  IF msg.t = "dict" THEN NormalizeItems(msg.d, <<>>)
        ELSE LET extra == get_extra(record_)
             IN  IF ~extra.ok THEN extra
                 ELSE Ok(PutAll(<<<<MSG, Str(getMessage(record_))>>>>, extra.v))

\* the tokens the loop over self.keys appends
RECURSIVE default_tokens(_, _, _)
default_tokens(keys, mapping, record_) ==
    IF keys = <<>> THEN <<>>
    ELSE LET key == keys[1]
             attribute == IF HasKey(mapping, key) THEN Lookup(mapping, key) ELSE key
             rest == default_tokens(Tail(keys), mapping, record_)
         IN  IF ~HasKey(record_, attribute) THEN rest
             ELSE <<Token(key, format_value(Lookup(record_, attribute)))>> \o rest

exc_tokens(record_) ==
    IF Truthy(Lookup(record_, EXC_INFO))
    THEN <<Token(EXC_INFO, format_exc_info(Lookup(record_, EXC_INFO)))>>
    ELSE <<>>

tokens_always_params(self_, record_, params) ==
    default_tokens(self_.keys, self_.mapping, record_)
        \o <<format_params(params)>>
        \o exc_tokens(record_)

\* the list tokens when format reaches its return statement
tokens(self_, record_, params) ==
    LET formatted_params == format_params(params)
    IN  default_tokens(self_.keys, self_.mapping, record_)
            \o (IF formatted_params # <<>> THEN <<formatted_params>> ELSE <<>>)
            \o exc_tokens(record_)

\* lines 159-202 of format, on the record as it is then: the outcome, with the
\* params and the key=value tokens it was built from
render(self_, record_) ==
    LET params == get_params(record_)
    IN  IF ~params.ok
        THEN [out |-> params, params |-> <<>>, emitted |-> <<>>]
        ELSE [out |-> Ok(Join(<<SP>>, tokens(self_, record_, params.v))),
              params |-> params.v,
              emitted |-> default_tokens(self_.keys, self_.mapping, record_)
                              \o ParamTokens(params.v) \o exc_tokens(record_)]

format_generate_last(self_, record_) ==
    LET r == render(self_, record_)
    IN  [record |-> generate_asctime(self_, record_), out |-> r.out,
         params |-> r.params, emitted |-> r.emitted]

\* self.format(record): the outcome and the record as the call leaves it
format(self_, record_) ==
    LET generated == generate_asctime(self_, record_)
        r == render(self_, generated)
    IN  [record |-> generated, out |-> r.out,
         params |-> r.params, emitted |-> r.emitted]

----------------------------------------------------------------------------
(* Inputs *)

\* the sequences of at most n elements of S
RECURSIVE SeqsUpTo(_, _)
SeqsUpTo(S, n) ==
    IF n = 0 THEN {<<>>}
    ELSE LET shorter == SeqsUpTo(S, n - 1)
         IN  shorter \cup {Append(q, x) : q \in shorter, x \in S}

NoRepeat(q) == \A i, j \in 1..Len(q) : q[i] = q[j] => i = j

\* a dict display holds each key once
DistinctKeys(d) == \A i, j \in 1..Len(d) : d[i][1] = d[j][1] => i = j

Dicts(items, n) == {d \in SeqsUpTo(items, n) : DistinctKeys(d)}

Values ==
    {None, Bool(TRUE), Bool(FALSE)} \cup {Num(n) : n \in -MaxNum..MaxNum}
        \cup {Str(s) : s \in Texts} \cup {Obj(s) : s \in Texts}

\* keys as callers pass them: text, and values that are not text
Keys == {Str(s) : s \in Texts} \cup {None, Num(0), Num(1), Bool(TRUE), Obj(<<"a">>)}

ExcInfos ==
    {Exc(m \o [i \in 1..k |-> NL], f) :
        m \in {<<>>, <<"a">>}, k \in 0..MaxNewlines, f \in 0..MaxFrames}

A_B == <<"a", SP, "b">>
A_b == <<"a", US, "b">>
DNE == <<"?">>
INFO == <<"I", "N", "F", "O">>

\* constructor arguments; a mapping is given in one order of its items
KeyLists == {q \in SeqsUpTo({Str(AT), Str(ASCTIME), Str(A_B)}, MaxKeys) : NoRepeat(q)}

MappingItems == <<<<Str(AT), LEVELNAME>>, <<Str(A_B), ASCTIME>>, <<Str(ASCTIME), DNE>>>>

Mappings ==
    {SelectSeq(MappingItems, LAMBDA item : item \in chosen) :
        chosen \in {c \in SUBSET {MappingItems[i] : i \in 1..Len(MappingItems)} :
                        Cardinality(c) <= MaxKeys}}

DateFmts == {None, Str(<<"%">>)}

\* constructor arguments with keys that collide once normalized or are not text
RawKeyLists == SeqsUpTo({Str(AT), Str(A_B), Str(A_b), Str(<<>>), Num(1)}, MaxKeys)

RawMappings ==
    Dicts({<<Str(A_B), LEVELNAME>>, <<Str(A_b), ASCTIME>>, <<Str(<<>>), DNE>>}, MaxKeys)

\* records: logging.makeLogRecord over msg and exc_info, then the extra fields
Messages ==
    {Str(<<"a">>), Str(<<"a", SP, BS>>)}
        \cup {Dict(d) : d \in Dicts({<<Str(A_B), Num(1)>>, <<Str(A_b), Str(<<"a", SP, BS>>)>>,
                                     <<Num(1), None>>}, MaxFields)}

Extras == Dicts({<<A_B, Num(1)>>, <<A_b, Str(<<DQ, NL>>)>>}, MaxFields)

makeLogRecord(msg, exc_info, extra) ==
    <<<<MSG, msg>>, <<LEVELNAME, Str(INFO)>>, <<LEVELNO, Num(20)>>,
      <<EXC_INFO, exc_info>>, <<CREATED, Num(7)>>>> \o extra

Records ==
    {makeLogRecord(m, e, x) : m \in Messages, e \in {None, Exc(<<"a">>, 0)}, x \in Extras}

\* records formatted in between: without extra fields
OtherRecords ==
    {makeLogRecord(m, None, <<>>) : m \in {Str(<<"a">>), Dict(<<>>), Dict(<<<<Num(1), None>>>>)}}

Instances ==
    {c.v : c \in {i \in {init(k, m, f) : k \in KeyLists, m \in Mappings, f \in DateFmts} : i.ok}}

----------------------------------------------------------------------------
(* The class methods, each applied to one input *)

\* a call about to be made: the method and its argument
Call(method, x) == [method |-> method, x |-> x]

DefaultInstance == init(<<Str(AT)>>, <<<<Str(AT), LEVELNAME>>>>, None).v

Held(self_, record_) ==
    /\ self = self_ /\ built = self_
    /\ record = record_ /\ pre = record_
    /\ out = Ok(<<>>) /\ passed = <<>> /\ emitted = <<>>
    /\ first = <<>> /\ calls = 0 /\ between = "none"

InitFn ==
    /\ op = "none" /\ res = Ok(<<>>)
    /\ \/ \E s \in Texts : arg = Call("format_string", s)
       \/ \E value \in Values : arg = Call("format_value", value)
       \/ \E key \in Keys : arg = Call("normalize_key", key)
       \/ \E exc_info \in ExcInfos : arg = Call("format_exc_info", exc_info)
       \/ \E k \in RawKeyLists, m \in RawMappings :
              arg = Call("__init__", [keys |-> k, mapping |-> m])
    /\ Held(DefaultInstance, makeLogRecord(Str(<<"a">>), None, <<>>))

machine == <<self, record, pre, out, passed, emitted, first, calls, between, built>>

CallFormatString ==
    /\ arg.method = "format_string"
    /\ op' = "format_string" /\ res' = Ok(format_string(arg.x))
    /\ UNCHANGED <<arg, machine>>

CallFormatValue ==
    /\ arg.method = "format_value"
    /\ op' = "format_value" /\ res' = Ok(format_value(arg.x))
    /\ UNCHANGED <<arg, machine>>

CallNormalizeKey ==
    /\ arg.method = "normalize_key"
    /\ op' = "normalize_key" /\ res' = normalize_key(arg.x)
    /\ UNCHANGED <<arg, machine>>

CallFormatExcInfo ==
    /\ arg.method = "format_exc_info"
    /\ op' = "format_exc_info" /\ res' = Ok(format_exc_info(arg.x))
    /\ UNCHANGED <<arg, machine>>

CallInit ==
    /\ arg.method = "__init__"
    /\ op' = "__init__" /\ res' = init(arg.x.keys, arg.x.mapping, None)
    /\ UNCHANGED <<arg, machine>>

NextFn ==
    \/ CallFormatString
    \/ CallFormatValue
    \/ CallNormalizeKey
    \/ CallFormatExcInfo
    \/ CallInit

SpecFn == InitFn /\ [][NextFn]_vars

----------------------------------------------------------------------------
(* One instance formatting records *)

Init ==
    /\ op = "none" /\ arg = Call("none", <<>>) /\ res = Ok(<<>>)
    /\ \E i \in Instances, r \in Records : Held(i, r)

\* self.format(record) on the record the caller holds
Format ==
    LET r == format(self, record)
    IN  /\ pre' = record
        /\ record' = r.record
        /\ out' = r.out
        /\ passed' = r.params
        /\ emitted' = r.emitted
        /\ first' = IF calls = 0 /\ r.out.ok THEN r.out.v ELSE first
        /\ calls' = IF calls < MaxCalls THEN calls + 1 ELSE calls
        /\ UNCHANGED <<op, arg, res, self, between, built>>

\* self.format(other) on a record created for the call and dropped after it
FormatOther ==
    \E other \in OtherRecords :
        LET r == format(self, other)
        IN  /\ between' = IF r.out.ok THEN "returned" ELSE "raised"
            /\ UNCHANGED <<op, arg, res, self, record, pre, out, passed, emitted,
                           first, calls, built>>

Next == Format \/ FormatOther

Spec == Init /\ [][Next]_vars

----------------------------------------------------------------------------
(* Properties of the class methods, under SpecFn *)

\* s with every c replaced by new, built from the last character backwards
RECURSIVE Substituted(_, _, _)
Substituted(s, c, new) ==
    IF Len(s) = 0 THEN <<>>
    ELSE Substituted(SubSeq(s, 1, Len(s) - 1), c, new)
             \o (IF s[Len(s)] = c THEN new ELSE <<s[Len(s)]>>)

Chars(s) == {s[i] : i \in 1..Len(s)}

\* the reference result for format_string(s)
EscapeReference(s) ==
    LET escaped == Substituted(Substituted(s, DQ, <<BS, DQ>>), NL, <<BS, "n">>)
        wrapped == IF Chars(s) \cap {SP, EQ} # {} THEN <<DQ>> \o escaped \o <<DQ>>
                   ELSE escaped
    IN  IF wrapped = <<>> THEN <<DQ, DQ>> ELSE wrapped

\* C1: format_string(s) is the reference result: every '"' replaced by
\* backslash-quote, then every newline by backslash-n, the result wrapped in
\* double quotes iff the original s holds a space or an '=', and '""' when that
\* is empty; it is s itself for a non-empty s without space, '=', '"' and
\* newline, and it is never the empty text.
C1_FormatStringIsReference ==
    op = "format_string" =>
        /\ res.ok
        /\ res.v = EscapeReference(arg.x)
        /\ (arg.x # <<>> /\ Chars(arg.x) \cap {SP, EQ, DQ, NL} = {}) => res.v = arg.x
        /\ res.v # <<>>

C1_Witness ==
    /\ op = "format_string"
    /\ arg.x = <<SP, DQ, NL>>
    /\ res.v = <<DQ, SP, BS, DQ, BS, "n", DQ>>

DigitValue(c) == CHOOSE d \in 0..9 : Digit(d) = c

\* the number a decimal text denotes
RECURSIVE Decimal(_)
Decimal(s) ==
    IF s = <<>> THEN 0
    ELSE IF s[1] = "-" THEN -Decimal(Tail(s))
    ELSE 10 * Decimal(SubSeq(s, 1, Len(s) - 1)) + DigitValue(s[Len(s)])

IsDecimal(s) ==
    /\ s # <<>>
    /\ \A i \in 1..Len(s) :
          \/ \E d \in 0..9 : s[i] = Digit(d)
          \/ i = 1 /\ s[i] = "-" /\ Len(s) > 1

\* C2: format_value applies its rules in priority order: None gives the
\* zero-length text; a boolean gives true or false, never a number's text; any
\* other number gives its unquoted decimal text; every other value gives
\* format_string of its string form, so a str and an object with that string
\* form render alike.
C2_FormatValuePriority ==
    op = "format_value" =>
        /\ res.ok
        /\ arg.x.t = "none" => res.v = <<>>
        /\ arg.x.t = "bool" =>
              res.v = IF arg.x.n = 1 THEN <<"t", "r", "u", "e">>
                      ELSE <<"f", "a", "l", "s", "e">>
        /\ arg.x.t = "num" => IsDecimal(res.v) /\ Decimal(res.v) = arg.x.n
        /\ arg.x.t \in {"str", "obj"} =>
              /\ res.v = EscapeReference(arg.x.s)
              /\ res.v = format_value(Str(arg.x.s))
              /\ res.v = format_value(Obj(arg.x.s))

C2_Witness ==
    /\ op = "format_value"
    /\ arg.x = Bool(TRUE)
    /\ res.v = <<"t", "r", "u", "e">>

\* the reference result for normalize_key of a text key
KeyReference(s) ==
    IF s = <<>> THEN <<US>>
    ELSE Substituted(Substituted(s, SP, <<US>>), NL, <<BS, "n">>)

IsText(value) == value.t = "str"

StripOne(value) ==
    IF value # <<>> /\ value[Len(value)] = NL
    THEN SubSeq(value, 1, Len(value) - 1) ELSE value

\* C10: format_exc_info strips exactly one trailing newline of the trace text
\* and returns format_string of the rest; an Exception "a" without frames
\* renders as the quoted token "E: a".
C10_StripsOneNewline ==
    op = "format_exc_info" =>
        /\ res.v = format_string(StripOne(print_exception(arg.x)))
        /\ arg.x = Exc(<<"a">>, 0) => res.v = <<DQ, "E", ":", SP, "a", DQ>>

----------------------------------------------------------------------------
(* Properties of format, under Spec *)

\* format has returned a line for record
Returned == calls >= 1 /\ out.ok

RECURSIVE Flatten(_)
Flatten(qs) == IF qs = <<>> THEN <<>> ELSE qs[1] \o Flatten(Tail(qs))

NonEmpty(q) == q # <<>>

\* the attribute a default key is read from
Source(key) == IF HasKey(self.mapping, key) THEN Lookup(self.mapping, key) ELSE key

\* the three contributions to the line, read off the record as format reads
\* it, that is with its timestamp text generated when it is requested
DefaultContribution ==
    Flatten([i \in 1..Len(self.keys) |->
                IF HasKey(record, Source(self.keys[i]))
                THEN <<Token(self.keys[i], format_value(Lookup(record, Source(self.keys[i]))))>>
                ELSE <<>>])

ParamsContribution ==
    [i \in 1..Len(passed) |-> Token(passed[i][1], format_value(passed[i][2]))]

ExcContribution ==
    IF Lookup(record, EXC_INFO).t = "exc"
    THEN Token(EXC_INFO, format_exc_info(Lookup(record, EXC_INFO)))
    ELSE <<>>

LineReference ==
    Join(<<SP>>, SelectSeq(<<Join(<<SP>>, DefaultContribution),
                             Join(<<SP>>, ParamsContribution),
                             ExcContribution>>, NonEmpty))

AT_INFO == <<"a", "t", EQ, "I", "N", "F", "O">>

\* C3: the line format returns is the single-space join of the default-key
\* tokens (in configured order, read through the mapping, a key whose
\* attribute is absent giving none), the tokens of the params, and a final
\* exc_info token iff the record carries exc_info; an empty contribution
\* leaves no separator, so the line neither starts nor ends with a space and is
\* the emitted tokens with one space between neighbours; an empty dict message
\* at level INFO gives at=INFO.
C3_LineIsJoinOfContributions ==
    Returned =>
        /\ out.v = LineReference
        /\ out.v = Join(<<SP>>, emitted)
        /\ \A i \in 1..Len(emitted) : emitted[i] # <<>>
        /\ out.v # <<>> => out.v[1] # SP /\ out.v[Len(out.v)] # SP
        /\ (/\ self = DefaultInstance
            /\ Lookup(pre, MSG) = Dict(<<>>)
            /\ Lookup(pre, EXC_INFO) = None) => out.v = AT_INFO

C3_Witness ==
    /\ Returned
    /\ self = DefaultInstance
    /\ Lookup(pre, MSG) = Dict(<<>>)
    /\ Lookup(pre, EXC_INFO) = None
    /\ out.v = AT_INFO

\* the key normalize_key gives when it returns
NormalizedKey(key) == IF IsText(key) THEN KeyReference(key.s) ELSE <<US>>

\* the fields the message shape selects, one per field, each key normalized
SelectedFields ==
    LET msg == Lookup(pre, MSG)
        ambient == SelectSeq(pre, NotReserved)
    IN  IF msg.t = "dict"
        THEN [i \in 1..Len(msg.d) |-> <<NormalizedKey(msg.d[i][1]), msg.d[i][2]>>]
        ELSE <<<<MSG, Str(msg.s)>>>>
                 \o [i \in 1..Len(ambient) |->
                        <<NormalizedKey(Str(ambient[i][1])), ambient[i][2]>>]

\* fields with each key once: where it stands first, with the value it has last
Merged(fields) ==
    LET n == Len(fields)
        IsFirst(i) == \A j \in 1..(i - 1) : fields[j][1] # fields[i][1]
        Last(i) == CHOOSE j \in i..n :
                       /\ fields[j][1] = fields[i][1]
                       /\ \A k \in (j + 1)..n : fields[k][1] # fields[i][1]
        firsts == SelectSeq([i \in 1..n |-> i], IsFirst)
    IN  [m \in 1..Len(firsts) |-> <<fields[firsts[m]][1], fields[Last(firsts[m])][2]>>]

\* C4 as stated: the params are the items of a dict message with each key
\* normalized, and otherwise msg followed by every field of the record that
\* is not reserved, each key normalized, in the order they were attached.
C4_ParamsAreSelectedFields == Returned => passed = SelectedFields

\* C4: the params are those fields with keys that normalize to the same key
\* merged into one field, which stands where the first of them stood and holds
\* the value of the last; a dict message contributes its items only, a text
\* message msg first and no reserved field.
C4_ParamsAreMergedFields ==
    Returned =>
        /\ passed = Merged(SelectedFields)
        /\ Lookup(pre, MSG).t = "dict" => Len(passed) <= Len(Lookup(pre, MSG).d)
        /\ Lookup(pre, MSG).t # "dict" =>
              /\ passed[1] = <<MSG, Str(Lookup(pre, MSG).s)>>
              /\ \A i \in 2..Len(passed) : passed[i][1] \notin RESERVED

C4_Witness ==
    /\ Returned
    /\ Lookup(pre, MSG).t = "str"
    /\ HasKey(pre, A_B) /\ HasKey(pre, A_b)
    /\ Len(passed) = 2
    /\ passed[2][1] = A_b

\* the tokens a parser gets that splits the line on the spaces outside quoted
\* regions: a region opens at a '"' and closes at the next '"' that does not
\* follow a backslash
RECURSIVE Scan(_, _, _, _, _)
Scan(line, i, quoted, token, done) ==
    IF i > Len(line) THEN Append(done, token)
    ELSE LET c == line[i]
             escaped == i > 1 /\ line[i - 1] = BS
         IN  IF c = SP /\ ~quoted THEN Scan(line, i + 1, FALSE, <<>>, Append(done, token))
             ELSE IF c = DQ /\ ~quoted THEN Scan(line, i + 1, TRUE, Append(token, c), done)
             ELSE IF c = DQ /\ ~escaped THEN Scan(line, i + 1, FALSE, Append(token, c), done)
             ELSE Scan(line, i + 1, quoted, Append(token, c), done)

NaiveSplit(line) == IF line = <<>> THEN <<>> ELSE Scan(line, 1, FALSE, <<>>, <<>>)

\* C5: the line holds no newline, and splitting it on the spaces outside
\* quoted regions gives back exactly the key=value tokens that were emitted.
C5_LineSplitsIntoTokens ==
    Returned =>
        /\ NL \notin Chars(out.v)
        /\ NaiveSplit(out.v) = emitted

\* C6: every format call returns a line; none raises.
C6_FormatNeverRaises == calls >= 1 => out.ok

\* C8: the instance stays as __init__ left it, and a later format call on a
\* record returns the line the first call on it returned.
C8_NoCrossCallState ==
    /\ self = built
    /\ (calls >= 2 /\ out.ok) => out.v = first

C8_Witness ==
    /\ calls >= 2
    /\ between = "raised"
    /\ out.ok
    /\ UsesAsctime(self)
    /\ Lookup(record, EXC_INFO).t = "exc"
    /\ out.v = first
    /\ first # <<>>

\* C9 as stated: format leaves the record as it was.
C9_RecordUnchanged == Returned => record = pre

Without(record_, name) == SelectSeq(record_, LAMBDA item : item[1] # name)

\* C9: format leaves every attribute of the record other than asctime as it
\* was; when asctime is among the keys or the mapping's targets it sets
\* record.asctime to the formatted time, and otherwise it leaves the record
\* as it was.
C9_OnlyAsctimeChanges ==
    Returned =>
        /\ Without(record, ASCTIME) = Without(pre, ASCTIME)
        /\ UsesAsctime(self) =>
              /\ HasKey(record, ASCTIME)
              /\ Lookup(record, ASCTIME) = Str(formatTime(pre, self.datefmt))
        /\ ~UsesAsctime(self) => record = pre

C9_Witness ==
    /\ Returned
    /\ UsesAsctime(self)
    /\ ~HasKey(pre, ASCTIME)
    /\ HasKey(record, ASCTIME)

=============================================================================
